---- MODULE Spec2Model ----
(***************************************************************************)
(* A model of scripts/update_subscriptions.py: the periodic batch pass     *)
(* (update_all_subscriptions) over user_list.txt, blocked_users.txt, the   *)
(* subscription files and the master server list.                          *)
(*                                                                         *)
(* Text lines are modelled by their parsed structure.  A registry line     *)
(*     [BLOCKED_SYMBOL]username data ---directive argument #note           *)
(* is the record                                                           *)
(*     [blk, name, data, cmd, to, ex, note]                                *)
(* where data is the sequence of data tokens, note is the free text after  *)
(* the '#' with its "| blocked <date>" sub-tags, cmd is the directive      *)
(* token and to / ex its argument (a username / a time expression).        *)
(* Instants are minutes since the midnight that starts day 0.              *)
(***************************************************************************)
EXTENDS Integers, Sequences, FiniteSets, TLC

VARIABLES
    now,            \* get_iran_time() of the running pass (minutes)
    pc,             \* position inside update_all_subscriptions
    fast,           \* FAST_RUN of the running pass
    up,             \* hosts that answer a TCP connect
    geo,            \* flag of the country the geo lookup reports ("" on failure)
    user_list,      \* user_list.txt: sequence of lines
    blocked_file,   \* blocked_users.txt: sequence of lines
    subs,           \* subscriptions/<username>.txt: username -> content
    last_state,     \* last_user_state.json
    servers,        \* servers.txt (MAIN_FILE): sequence of lines
    alt_servers,    \* servers1.txt (ALT_FILE): sequence of lines
    server_files,   \* names of the server files that exist
    active_file,    \* the file name the control panel marks as active
    non_working,    \* non_working.txt: sequence of quarantine entries
    unique_servers, \* local of update_all_subscriptions: the list to publish
    passes,         \* number of completed passes
    h,              \* history: what the running pass read, and the files
                    \* left by the pass before it
    fx              \* argument/result record of a pure function application

vars == <<now, pc, fast, up, geo, user_list, blocked_file, subs, last_state,
          servers, non_working, unique_servers, passes, h, fx,
          alt_servers, server_files, active_file>>

\* the server files other than servers.txt, and the control panel
panel == <<alt_servers, server_files, active_file>>

-----------------------------------------------------------------------------
(* Bounds of the model *)

MaxDay == 2
MaxUsers == 2
MaxPasses == 2
MaxServers == 3

-----------------------------------------------------------------------------
(* Sequence helpers *)

Range(s) == {s[i] : i \in 1..Len(s)}

RECURSIVE SeqFilter(_, _)
SeqFilter(s, keep) ==
    IF s = <<>> THEN <<>>
    ELSE IF Head(s) \in keep THEN <<Head(s)>> \o SeqFilter(Tail(s), keep)
         ELSE SeqFilter(Tail(s), keep)

\* all orders in which a for-loop can visit a Python set
Orders(S) ==
    {q \in [1..Cardinality(S) -> S] : \A i, j \in 1..Cardinality(S) : i # j => q[i] # q[j]}

-----------------------------------------------------------------------------
(* Clock and expiry expressions *)

MinPerDay == 24 * 60
None == -1
Day(t) == t \div MinPerDay
Tod(t) == t % MinPerDay
At(d, tod) == d * MinPerDay + tod
DefaultTod == 23 * 60 + 59
ValidTod(tod) == tod \in 0..(MinPerDay - 1)

\* A time expression after ---es:  k = "hm": "HH:MM";  "h": "<n> hours";
\* "d" / "w" / "mo": "<n> days|weeks|months[ HH:MM]";  "bad": anything else.
\* tod is the HH:MM part in minutes (None when absent, >= MinPerDay when the
\* hour or minute is out of range).
Delta(e) ==
    CASE e.k = "d"  -> e.n * MinPerDay
      [] e.k = "w"  -> e.n * 7 * MinPerDay
      [] e.k = "mo" -> e.n * 30 * MinPerDay
      [] e.k = "h"  -> e.n * 60
      [] OTHER      -> 0

parse_relative_datetime(e, t) ==
    CASE e.k = "hm" ->
            IF ValidTod(e.tod)
            THEN LET target == At(Day(t), e.tod)
                 IN  IF target <= t THEN At(Day(t) + 1, e.tod) ELSE target
            ELSE None
      [] e.k \in {"d", "w", "mo"} ->
            IF e.tod = None THEN At(Day(t + Delta(e)), DefaultTod)
            ELSE IF ValidTod(e.tod) THEN At(Day(t + Delta(e)), e.tod)
            ELSE None
      [] e.k = "h" ->
            IF e.tod = None THEN At(Day(t + Delta(e)), DefaultTod) ELSE None
      [] OTHER -> None

\* Data tokens: [k |-> "abs", t]   "YYYY-MM-DD HH:MM expires"  (t an instant)
\*              [k |-> "today", t] "HH:MM expires today"        (t a time of day)
\*              [k |-> "txt", t]   any other word (t identifies it)
format_expiry_datetime(target, t) ==
    IF Day(target) = Day(t) THEN [k |-> "today", t |-> Tod(target)]
    ELSE [k |-> "abs", t |-> target]

FirstOf(data, kind) ==
    LET idx == {i \in 1..Len(data) : data[i].k = kind}
    IN  IF idx = {} THEN None
        ELSE data[CHOOSE i \in idx : \A j \in idx : i <= j].t

\* <<expired, expiry instant>> of a line whose data tokens are `data`, at t.
\* The first pattern takes the first dated token, but a line that also holds
\* "expires today" makes its parse raise, and the loop goes on to the second
\* pattern, which reads the first "HH:MM expires today" as today's date.
check_expiry_datetime(data, t) ==
    LET a == FirstOf(data, "abs")
        d == FirstOf(data, "today")
    IN  IF a # None /\ d = None /\ a <= t THEN <<TRUE, a>>
        ELSE IF d # None /\ At(Day(t), d) <= t THEN <<TRUE, At(Day(t), d)>>
        ELSE <<FALSE, None>>

-----------------------------------------------------------------------------
(* Usernames and registry lines *)

\* A username is a base word and the digits appended to it by
\* generate_unique_username: "bob" = Nm("bob"), "bob1" = Sfx(Nm("bob"), 1).
Nm(b) == [b |-> b, s |-> <<>>]
Sfx(n, c) == [b |-> n.b, s |-> Append(n.s, c)]
NoName == Nm("")

NoEx == [k |-> "none", n |-> 0, tod |-> None]
NoNote == [txt |-> "", bd |-> <<>>]

\* cmd: "none", "b" (---b), "ub" (---ub), "d" (---d), "m" (---m),
\* "r" (---r), "es" (---es).  to: the username written after ---m / ---r.
\* ex: the expression written after ---es.
\* note.txt: the note's words;  note.bd: the days of its "| blocked <date>"
\* sub-tags, in the order written.
Ln(blk, name, data, note) ==
    [blk |-> blk, name |-> name, data |-> data, cmd |-> "none",
     to |-> NoName, ex |-> NoEx, note |-> note]

Plain(name) == Ln(FALSE, name, <<>>, NoNote)

Cmd(l, c) == [l EXCEPT !.cmd = c]
CmdTo(l, c, to) == [l EXCEPT !.cmd = c, !.to = to]
CmdEx(l, e) == [l EXCEPT !.cmd = "es", !.ex = e]

\* the first word of the line before any directive, once the blocked symbol
\* and the note are removed
extract_username_from_line(l) == l.name

\* the words between the username and the directive
extract_user_data_from_line(l) == l.data

extract_notes_from_line(l) == l.note

\* re.sub of every "| blocked YYYY-MM-DD"
strip_block_dates(note) == [note EXCEPT !.bd = <<>>]

HasPipe(l) == l.note.bd # <<>>

Usernames(users) == {extract_username_from_line(users[i]) : i \in 1..Len(users)}

\* the last line of `users` with this username
LastLineOf(users, name) ==
    users[CHOOSE i \in 1..Len(users) :
            /\ extract_username_from_line(users[i]) = name
            /\ \A j \in 1..Len(users) :
                 extract_username_from_line(users[j]) = name => j <= i]

\* user_line is overwritten by every matching line, so the last one is kept and
\* the other matching lines are in neither list
move_user_to_top(users, username) ==
    IF username \in Usernames(users)
    THEN <<LastLineOf(users, username)>>
           \o SeqFilter(users, {l \in Range(users) :
                                   extract_username_from_line(l) # username})
    ELSE users

\* move_user_to_top for each username of `order` in turn
RECURSIVE MoveAllToTop(_, _)
MoveAllToTop(users, order) ==
    IF order = <<>> THEN users
    ELSE MoveAllToTop(move_user_to_top(users, Head(order)), Tail(order))

\* existing: the usernames of the lines of user_list.txt on disk
generate_unique_username(base_username, existing) ==
    IF base_username \notin existing THEN base_username
    ELSE Sfx(base_username,
             CHOOSE c \in 1..(Cardinality(existing) + 1) :
                /\ Sfx(base_username, c) \notin existing
                /\ \A d \in 1..(c - 1) : Sfx(base_username, d) \in existing)

\* state[username] = line, later lines replacing earlier ones; lines with an
\* empty username are left out
save_user_state(users) ==
    [ex |-> TRUE,
     lines |-> [n \in Usernames(users) \ {NoName} |-> LastLineOf(users, n)]]

NoState == [ex |-> FALSE, lines |-> <<>>]

\* a line of blocked_users.txt written from a blocked registry line
BlockedEntry(l) == [l EXCEPT !.blk = FALSE]

get_blocked_users(file) == Usernames(file) \ {NoName}

-----------------------------------------------------------------------------
(* Subscription files *)

\* content of a subscription file: k = "empty" (created with f.write('')),
\* "b64" (base64 of the newline-joined lines of body), "manual" (a payload the
\* script did not write)
FileEmpty == [k |-> "empty", body |-> <<>>]
ManualPayload == [k |-> "manual", body |-> <<>>]
\* base64 of the newline-joined lines; of no line at all it is the empty string
Base64Joined(lines) == IF lines = <<>> THEN FileEmpty ELSE [k |-> "b64", body |-> lines]

FileExists(fs, name) == name \in DOMAIN fs
FileWrite(fs, name, content) ==
    [n \in DOMAIN fs \cup {name} |-> IF n = name THEN content ELSE fs[n]]
FileRemove(fs, name) == [n \in DOMAIN fs \ {name} |-> fs[n]]

\* writes an empty file unless one exists
create_subscription_file(fs, username) ==
    IF FileExists(fs, username) THEN fs ELSE FileWrite(fs, username, FileEmpty)

\* <<the username used, the files afterwards>>.  When the target file exists
\* the name is passed through generate_unique_username, which looks at the
\* registry and not at the directory; os.rename replaces an existing target.
rename_subscription_file(fs, old_username, new_username, disk) ==
    IF FileExists(fs, old_username)
    THEN LET final == IF FileExists(fs, new_username)
                      THEN generate_unique_username(new_username, disk)
                      ELSE new_username
         IN  <<final, FileWrite(FileRemove(fs, old_username), final, fs[old_username])>>
    ELSE <<new_username, fs>>

-----------------------------------------------------------------------------
(* process_user_commands *)

\* the pre-clean loop: an un-blocked line holding "| blocked" is rebuilt from
\* its username, data and cleaned note
PreClean(l) ==
    IF ~l.blk /\ HasPipe(l)
    THEN Ln(FALSE, extract_username_from_line(l), extract_user_data_from_line(l),
            strip_block_dates(extract_notes_from_line(l)))
    ELSE l

PreCleanAll(users) == [i \in 1..Len(users) |-> PreClean(users[i])]

RenValues(ren) == {p[2] : p \in ren}
RenPut(ren, old, new) == {p \in ren : p[1] # old} \cup {<<old, new>>}

Acc0(fs) ==
    [upd |-> <<>>, blocked |-> {}, unblocked |-> {}, deleted |-> {}, new |-> {},
     ren |-> {}, top |-> {}, fs |-> fs]

\* the "---b" branch
BlockLineUndated(l, t) ==
    Ln(TRUE, extract_username_from_line(l), extract_user_data_from_line(l),
       extract_notes_from_line(l))

BlockLine(l, t) ==
    LET notes == extract_notes_from_line(l)
        dated == IF Day(t) \in Range(notes.bd) THEN notes
                 ELSE [notes EXCEPT !.bd = Append(notes.bd, Day(t))]
    IN  Ln(TRUE, extract_username_from_line(l), extract_user_data_from_line(l), dated)

UnblockLineKeepDates(l) ==
    Ln(FALSE, extract_username_from_line(l), extract_user_data_from_line(l),
       extract_notes_from_line(l))

\* the "---ub" branch
UnblockLine(l) ==
    Ln(FALSE, extract_username_from_line(l), extract_user_data_from_line(l),
       strip_block_dates(extract_notes_from_line(l)))

\* does the code see the name as taken while it handles line i of users
CreateConflictIgnored(acc, users, i, username) == FALSE

CreateConflict(acc, users, i, username) ==
    \/ username \in Usernames(acc.upd)
    \/ username \in {extract_username_from_line(users[j]) : j \in (1..Len(users)) \ {i}}
    \/ username \in RenValues(acc.ren)
    \/ username \in acc.new

RenameConflict(acc, users, username) ==
    \/ username \in Usernames(users)
    \/ username \in Usernames(acc.upd)
    \/ username \in RenValues(acc.ren)
    \/ username \in acc.new

\* the "---m" branch
CreateStep(acc, users, i, disk) ==
    LET l == users[i]
        given == IF l.to # NoName THEN l.to ELSE extract_username_from_line(l)
        user_data == IF l.to # NoName THEN <<>> ELSE extract_user_data_from_line(l)
        named == IF given = NoName THEN generate_unique_username(Nm("customer"), disk)
                 ELSE given
        username == IF CreateConflict(acc, users, i, named)
                    THEN generate_unique_username(named, disk)
                    ELSE named
    IN  [acc EXCEPT !.new = @ \cup {username},
                    !.fs = create_subscription_file(@, username),
                    !.upd = Append(@, Ln(FALSE, username, user_data, l.note)),
                    !.top = @ \cup {username}]

\* the "---r" branch
RenameStep(acc, users, i, disk) ==
    LET l == users[i]
        old_username == extract_username_from_line(l)
    IN  IF l.to # NoName /\ l.to # old_username
        THEN IF old_username \in RenValues(acc.ren)
             THEN [acc EXCEPT !.upd = Append(@, l)]
             ELSE LET new_username == IF RenameConflict(acc, users, l.to)
                                      THEN generate_unique_username(l.to, disk)
                                      ELSE l.to
                      moved == rename_subscription_file(acc.fs, old_username,
                                                        new_username, disk)
                  IN  [acc EXCEPT !.ren = RenPut(@, old_username, moved[1]),
                                  !.top = @ \cup {new_username, moved[1]},
                                  !.fs = moved[2],
                                  !.upd = Append(@, Ln(l.blk, moved[1],
                                                       extract_user_data_from_line(l),
                                                       extract_notes_from_line(l)))]
        ELSE [acc EXCEPT !.upd = Append(@, l)]

ExpiryStepBlank(acc, l, t) ==
    [acc EXCEPT !.top = @ \cup {extract_username_from_line(l)},
                !.upd = Append(@, Plain(extract_username_from_line(l)))]

\* the "---es" branch
ExpiryStep(acc, l, t) ==
    LET target == parse_relative_datetime(l.ex, t)
        line == IF target # None
                THEN Ln(l.blk, extract_username_from_line(l),
                        <<format_expiry_datetime(target, t)>> \o l.data,
                        extract_notes_from_line(l))
                ELSE l
    IN  [acc EXCEPT !.top = @ \cup {extract_username_from_line(l)},
                    !.upd = Append(@, line)]

\* what the set-expiry directives of `users` write at t: the username, the
\* instant parsed and the token formatted for it
WrittenExpiries(users, t) ==
    {[name |-> extract_username_from_line(l),
      t0 |-> parse_relative_datetime(l.ex, t),
      tok |-> format_expiry_datetime(parse_relative_datetime(l.ex, t), t)] :
        l \in {x \in Range(users) :
                  x.cmd = "es" /\ parse_relative_datetime(x.ex, t) # None}}

\* one turn of "for user_line in users"
CommandStep(acc, users, i, disk, t) ==
    LET l == users[i]
        username == extract_username_from_line(l)
    IN  CASE l.cmd = "b"  -> [acc EXCEPT !.blocked = @ \cup {username},
                                         !.top = @ \cup {username},
                                         !.upd = Append(@, BlockLine(l, t))]
          [] l.cmd = "ub" -> [acc EXCEPT !.unblocked = @ \cup {username},
                                         !.top = @ \cup {username},
                                         !.upd = Append(@, UnblockLine(l))]
          [] l.cmd = "d"  -> [acc EXCEPT !.deleted = @ \cup {username}]
          [] l.cmd = "m"  -> CreateStep(acc, users, i, disk)
          [] l.cmd = "r"  -> RenameStep(acc, users, i, disk)
          [] l.cmd = "es" -> ExpiryStep(acc, l, t)
          [] OTHER        -> [acc EXCEPT !.upd = Append(@, l)]

RECURSIVE CommandLoop(_, _, _, _, _)
CommandLoop(acc, users, i, disk, t) ==
    IF i > Len(users) THEN acc
    ELSE CommandLoop(CommandStep(acc, users, i, disk, t), users, i + 1, disk, t)

BlockedDictOfNone(users) == <<>>

\* blocked_lines_dict: one entry per username of a blocked line, at the place
\* of its first line and with the text of its last
BlockedDict(users) ==
    LET blk == SeqFilter(users, {l \in Range(users) : l.blk})
        first == {i \in 1..Len(blk) :
                     \A j \in 1..(i - 1) : extract_username_from_line(blk[j])
                                            # extract_username_from_line(blk[i])}
        keep == SeqFilter([i \in 1..Len(blk) |-> i], first)
    IN  [k \in 1..Len(keep) |->
            BlockedEntry(LastLineOf(blk, extract_username_from_line(blk[keep[k]])))]

\* ordered_blocked: the freshly blocked names in the order `order` of the set
\* blocked_users, then the rest in registry order
OrderedBlocked(users, order) ==
    LET dict == BlockedDict(users)
        fresh == {order[i] : i \in 1..Len(order)}
    IN  [i \in 1..Len(order) |-> LastLineOf(dict, order[i])]
          \o SeqFilter(dict, {e \in Range(dict) :
                                 extract_username_from_line(e) \notin fresh})

RemoveFilesKept(fs, names) == fs

RECURSIVE RemoveFiles(_, _)
RemoveFiles(fs, names) ==
    IF names = {} THEN fs
    ELSE LET n == CHOOSE x \in names : TRUE
         IN  RemoveFiles(FileRemove(fs, n), names \ {n})

-----------------------------------------------------------------------------
(* detect_manual_changes *)

\* the lines detect_manual_changes compares: those without a command flag
\* and with a username
Comparable(users) ==
    SeqFilter(users, {l \in Range(users) :
                         l.cmd = "none" /\ extract_username_from_line(l) # NoName})

\* usernames whose line differs from the snapshot, or that are new
ManuallyModified(users, last) ==
    LET cur == Comparable(users)
    IN  {n \in Usernames(cur) :
            \/ n \notin DOMAIN last.lines
            \/ last.lines[n] # LastLineOf(cur, n)}

\* a manual un-block (the snapshot line was blocked, the current one is not)
\* of a line that still holds "| blocked": the first line of the username is
\* replaced by the rebuilt current line
CleanedUsers(users, last) ==
    LET cur == Comparable(users)
        clean == {n \in Usernames(cur) \cap DOMAIN last.lines :
                     /\ last.lines[n] # LastLineOf(cur, n)
                     /\ last.lines[n].blk /\ ~LastLineOf(cur, n).blk
                     /\ HasPipe(LastLineOf(cur, n))}
        firstOf(n) == CHOOSE i \in 1..Len(users) :
                         /\ extract_username_from_line(users[i]) = n
                         /\ \A j \in 1..(i - 1) : extract_username_from_line(users[j]) # n
    IN  [i \in 1..Len(users) |->
            IF extract_username_from_line(users[i]) \in clean
               /\ i = firstOf(extract_username_from_line(users[i]))
            THEN LET new_line == LastLineOf(cur, extract_username_from_line(users[i]))
                 IN  Ln(FALSE, extract_username_from_line(users[i]),
                        extract_user_data_from_line(new_line),
                        strip_block_dates(extract_notes_from_line(new_line)))
            ELSE users[i]]

-----------------------------------------------------------------------------
(* process_blocked_users_commands *)

\* dedup_dict: one line per username, the first one unless a later line of the
\* username holds a '|' and the kept one does not
DedupBlocked(raw) ==
    LET first == {i \in 1..Len(raw) :
                     \A j \in 1..(i - 1) : extract_username_from_line(raw[j])
                                            # extract_username_from_line(raw[i])}
        keep == SeqFilter([i \in 1..Len(raw) |-> i], first)
        pick(i) ==
            LET piped == {j \in i..Len(raw) :
                             /\ extract_username_from_line(raw[j])
                                  = extract_username_from_line(raw[i])
                             /\ HasPipe(raw[j])}
            IN  IF HasPipe(raw[i]) \/ piped = {} THEN raw[i]
                ELSE raw[CHOOSE j \in piped : \A k \in piped : j <= k]
    IN  [k \in 1..Len(keep) |-> pick(keep[k])]

ToUnblock(raw) ==
    {extract_username_from_line(l) :
        l \in {x \in Range(raw) : x.cmd = "ub"}} \ {NoName}

ToDelete(raw) ==
    {extract_username_from_line(l) :
        l \in {x \in Range(raw) : x.cmd = "d"}} \ {NoName}

\* the registry line of a username unblocked from blocked_users.txt: the symbol
\* is stripped, and the note is the one written in blocked_users.txt if it has
\* words, else the registry line's own, either without block dates
UnblockedFromFile(user_line, raw) ==
    LET entry == LastLineOf(SeqFilter(raw, {x \in Range(raw) : x.cmd = "ub"}),
                            extract_username_from_line(user_line))
        new_note == strip_block_dates(extract_notes_from_line(entry))
    IN  [user_line EXCEPT
            !.blk = FALSE,
            !.note = IF new_note.txt # "" THEN new_note
                     ELSE strip_block_dates(extract_notes_from_line(user_line))]

BlockedCmdUsers(users, raw) ==
    LET kept == SeqFilter(users, {l \in Range(users) :
                    \/ extract_username_from_line(l) \in ToUnblock(raw)
                    \/ extract_username_from_line(l) \notin ToDelete(raw)})
    IN  [i \in 1..Len(kept) |->
            IF extract_username_from_line(kept[i]) \in ToUnblock(raw)
            THEN UnblockedFromFile(kept[i], raw)
            ELSE kept[i]]

\* new_block_list
BlockedFromUsers(users, to_delete) ==
    LET blk == SeqFilter(users, {l \in Range(users) :
                   l.blk /\ extract_username_from_line(l) \notin to_delete})
    IN  [i \in 1..Len(blk) |-> BlockedEntry(blk[i])]

-----------------------------------------------------------------------------
(* check_expired_users *)

IsExpired(l, t) == check_expiry_datetime(l.data, t)[1] /\ ~l.blk

ExpiredMarked(users, t) ==
    [i \in 1..Len(users) |->
        IF IsExpired(users[i], t) THEN [users[i] EXCEPT !.blk = TRUE] ELSE users[i]]

\* expired_users, in registry order
ExpiredNames(users, t) ==
    LET e == SeqFilter(users, {l \in Range(users) : IsExpired(l, t)})
    IN  [i \in 1..Len(e) |-> extract_username_from_line(e[i])]

-----------------------------------------------------------------------------
(* discover_new_subscriptions *)

\* add_user_to_list for each file (in listdir order `order`) whose username
\* was not in the registry when discovery started.  An empty username gives
\* an empty line, which move_user_to_top leaves at the end and the next
\* load_user_list drops.
RECURSIVE AddDiscovered(_, _)
AddDiscovered(users, order) ==
    IF order = <<>> THEN users
    ELSE LET username == Head(order)
             existing == Usernames(users)
             name == IF username \in existing
                     THEN generate_unique_username(username, existing)
                     ELSE username
             added == IF name = NoName THEN users
                      ELSE move_user_to_top(Append(users, Plain(name)), name)
         IN  AddDiscovered(added, Tail(order))

-----------------------------------------------------------------------------
(* Server lines *)

\* A proxy URI  scheme://credentials@host:port?q1&q2...#remark  is the record
\* [scheme, host, q, rem]: host stands for the whole netloc, q is the sequence
\* of query parameters (numbered in the lexicographic order of their text) and
\* rem the remark [idx, flag, txt, custom]: "Server <idx> <flag>--- <custom>"
\* when idx > 0, else the words txt (custom: what follows a "---" in them).
\* vmess lines (base64 JSON) are outside the modelled lines.
QUARANTINE_DAYS == 3

Rem(idx, flag, txt, custom) == [idx |-> idx, flag |-> flag, txt |-> txt, custom |-> custom]
Srv(scheme, host, q, rem) == [scheme |-> scheme, host |-> host, q |-> q, rem |-> rem]

\* str.lower() on the words of the model
Lower(x) ==
    CASE x = "VLESS" -> "vless"
      [] x = "H1"    -> "h1"
      [] OTHER       -> x

UrlSchemes == {"vless", "trojan", "ss", "hysteria", "hysteria2"}

RECURSIVE Insert(_, _)
Insert(x, s) ==
    IF s = <<>> THEN <<x>>
    ELSE IF x <= Head(s) THEN <<x>> \o s
         ELSE <<Head(s)>> \o Insert(x, Tail(s))

\* query_params.sort()
RECURSIVE SortQuery(_)
SortQuery(s) == IF s = <<>> THEN <<>> ELSE Insert(Head(s), SortQuery(Tail(s)))

extract_server_config_unsorted(l) ==
    [scheme |-> Lower(l.scheme), netloc |-> Lower(l.host), q |-> l.q]

\* the normalized configuration: the remark is dropped; for the URL schemes
\* scheme and netloc are lowered and the query sorted; any other line is the
\* lowered text before '#', its query in the order written
extract_server_config(l) ==
    IF l.scheme \in UrlSchemes
    THEN [scheme |-> Lower(l.scheme), netloc |-> Lower(l.host), q |-> SortQuery(l.q)]
    ELSE [scheme |-> Lower(l.scheme), netloc |-> Lower(l.host), q |-> l.q]

RECURSIVE DedupFrom(_, _)
DedupFrom(list, seen) ==
    IF list = <<>> THEN <<>>
    ELSE IF extract_server_config(Head(list)) \in seen
         THEN DedupFrom(Tail(list), seen)
         ELSE <<Head(list)>>
                \o DedupFrom(Tail(list), seen \cup {extract_server_config(Head(list))})

remove_duplicates(list) == DedupFrom(list, {})

FakeHosts == {"127.0.0.1", "localhost"}

is_fake_server(l) == l.host \in FakeHosts

\* a TCP connect to the parsed host, for a line of a known scheme
\* (urlparse(...).hostname is lower case)
validate_server(l, reachable) == l.scheme \in UrlSchemes /\ Lower(l.host) \in reachable

\* flag: the flag of the looked-up country ("" when the lookup fails)
update_server_remarks(list, flag) ==
    [i \in 1..Len(list) |->
        [list[i] EXCEPT !.rem = Rem(i, flag, "", list[i].rem.custom)]]

get_fake_servers ==
    <<Srv("vless", "127.0.0.1", <<1, 2, 3, 4>>, Rem(0, "", "expired", ""))>>

\* a line of non_working.txt: server | source_file | date.  src = NoFile is
\* the old format without a source file, at = None a date that does not parse.
QEntry(srv, src, at) == [srv |-> srv, src |-> src, at |-> at]

MAIN_FILE == "servers.txt"

\* None where a file name is expected
NoFile == ""

\* a second server file the control panel can list
ALT_FILE == "servers1.txt"

\* the server files and the control panel as one value
ServerDisk(active, files, main, alt) ==
    [active |-> active, files |-> files, main |-> main, alt |-> alt]

ReadServerFile(d, name) == IF name = MAIN_FILE THEN d.main ELSE d.alt

\* open(name, 'w') creates the file
WriteServerFile(d, name, list) ==
    [d EXCEPT !.files = @ \cup {name},
              !.main = IF name = MAIN_FILE THEN list ELSE @,
              !.alt = IF name = MAIN_FILE THEN @ ELSE list]

get_active_server_file(d) == d.active

load_main_servers_deduped(d) ==
    remove_duplicates(IF d.active \in d.files THEN ReadServerFile(d, d.active)
                      ELSE IF MAIN_FILE \in d.files THEN d.main ELSE <<>>)

\* the active file, servers.txt when it does not exist, [] when neither does
load_main_servers(d) ==
    LET active_file_ == IF get_active_server_file(d) \in d.files
                        THEN get_active_server_file(d) ELSE MAIN_FILE
    IN  IF active_file_ \notin d.files THEN <<>> ELSE ReadServerFile(d, active_file_)

\* the file load_main_servers opens: NoFile when it returns [] unread
LoadedFile(d) ==
    LET active_file_ == IF get_active_server_file(d) \in d.files
                        THEN get_active_server_file(d) ELSE MAIN_FILE
    IN  IF active_file_ \notin d.files THEN NoFile ELSE active_file_

\* written to the active file, whether it exists or not
save_main_servers(d, list) == WriteServerFile(d, get_active_server_file(d), list)

\* (today - dt).days
days_in_quarantine(e, t) == (t - e.at) \div MinPerDay

\* the entries cleanup_non_working logs as removed_after_3_days
LoggedRemoved(nw, t) ==
    {e \in Range(nw) : e.at # None /\ days_in_quarantine(e, t) >= QUARANTINE_DAYS}

cleanup_non_working_late(nw, t) ==
    SeqFilter(nw, {e \in Range(nw) :
                      e.at = None \/ days_in_quarantine(e, t) <= QUARANTINE_DAYS})

\* keep_non_working of cleanup_non_working
cleanup_non_working(nw, t) == SeqFilter(nw, Range(nw) \ LoggedRemoved(nw, t))

IsPrefix(s, t) == Len(s) <= Len(t) /\ SubSeq(t, 1, Len(s)) = s

NoRemark == Rem(0, "", "", "")

\* the words of remark r are the beginning of the words of remark s:
\* no remark at all, or "Server <idx>" against "Server <idx> <flag>--- <custom>"
RemarkPrefix(r, s) ==
    \/ r = s
    \/ r = NoRemark
    \/ r.idx > 0 /\ r.idx = s.idx /\ r.flag = "" /\ r.custom = ""

\* server_part in line.split(' | ')[0]: the text of line a occurs in the text
\* of line b ("scheme://host?q#remark")
TextIn(a, b) ==
    /\ a.scheme = b.scheme
    /\ a.host = b.host
    /\ \/ a.q = b.q /\ RemarkPrefix(a.rem, b.rem)
       \/ a.rem = NoRemark /\ IsPrefix(a.q, b.q)

\* inserted at the top unless its text occurs in the server part of a line
move_server_to_non_working(nw, l, source_file, t) ==
    IF \E e \in Range(nw) : TextIn(l, e.srv) THEN nw
    ELSE <<QEntry(l, source_file, t)>> \o nw

\* appended to the target file unless that file does not exist or holds a
\* line of the same configuration
move_server_to_main(d, l, target_file) ==
    LET target == IF target_file = NoFile THEN get_active_server_file(d) ELSE target_file
        main_servers == ReadServerFile(d, target)
    IN  IF target \notin d.files THEN d
        ELSE IF \E m \in Range(main_servers) :
                   extract_server_config(m) = extract_server_config(l)
             THEN d
             ELSE WriteServerFile(d, target, Append(main_servers, l))

\* process_non_working_recovery: <<keep_non_working, server files>>
RECURSIVE RecoverAll(_, _, _)
RecoverAll(nw, d, reachable) ==
    IF nw = <<>> THEN <<<<>>, d>>
    ELSE LET e == Head(nw)
         IN  IF e.at # None /\ validate_server(e.srv, reachable)
             THEN LET target_file == IF e.src # NoFile /\ e.src \in d.files
                                     THEN e.src ELSE NoFile
                  IN  RecoverAll(Tail(nw), move_server_to_main(d, e.srv, target_file),
                                 reachable)
             ELSE LET rest == RecoverAll(Tail(nw), d, reachable)
                  IN  <<<<e>> \o rest[1], rest[2]>>

RECURSIVE QuarantineAll(_, _, _, _)
QuarantineAll(list, nw, source_file, t) ==
    IF list = <<>> THEN nw
    ELSE QuarantineAll(Tail(list),
                       move_server_to_non_working(nw, Head(list), source_file, t),
                       source_file, t)

\* the validation of update_all_subscriptions: the fake lines are quarantined
\* first, then the lines that fail the probe, each in list order
ServersToCheck(list) == SeqFilter(list, {l \in Range(list) : ~is_fake_server(l)})

ValidServers(list, reachable) ==
    SeqFilter(ServersToCheck(list),
              {l \in Range(list) : validate_server(l, reachable)})

QuarantinedAfter(list, nw, reachable, source_file, t) ==
    QuarantineAll(
        SeqFilter(list, {l \in Range(list) : is_fake_server(l)})
          \o SeqFilter(ServersToCheck(list),
                       {l \in Range(list) : ~validate_server(l, reachable)}),
        nw, source_file, t)

-----------------------------------------------------------------------------
(* The publish step of update_all_subscriptions *)

should_block_user_inverted(username, blocked_users) == username \notin blocked_users

should_block_user(username, blocked_users) == username \in blocked_users

PayloadForSwapped(username, blocked_users, list) ==
    IF should_block_user(username, blocked_users)
    THEN Base64Joined(list)
    ELSE Base64Joined(get_fake_servers)

PayloadFor(username, blocked_users, list) ==
    IF should_block_user(username, blocked_users)
    THEN Base64Joined(get_fake_servers)
    ELSE Base64Joined(list)

\* a file is created for every managed user, then every file of a managed
\* user is rewritten; the other files are left as they are
Publish(fs, users, blocked_users, list) ==
    [n \in DOMAIN fs \cup Usernames(users) |->
        IF n \in Usernames(users) THEN PayloadFor(n, blocked_users, list) ELSE fs[n]]

-----------------------------------------------------------------------------
(* The pass: update_all_subscriptions, one action per step *)

Idle == pc \in {"idle", "done"}

\* the server files as the pass finds them
Disk == ServerDisk(active_file, server_files, servers, alt_servers)

SetDisk(d) ==
    /\ servers' = d.main
    /\ alt_servers' = d.alt
    /\ server_files' = d.files
    /\ active_file' = d.active

Hosts == {"h1", "h2"}
UpChoices == {Hosts, {"h1"}}

\* the start of a run: FAST_RUN is read from the environment
StartPass ==
    /\ Idle
    /\ passes < MaxPasses
    /\ fast' \in BOOLEAN
    /\ pc' = "detect"
    /\ h' = [h EXCEPT !.reg0 = user_list, !.blk0 = blocked_file, !.subs0 = subs,
                      !.snap = [ul |-> user_list, bf |-> blocked_file, fs |-> subs],
                      !.quiet = (pc = "done"), !.prevfast = fast,
                      !.prev_in = h.cmd_in, !.nw0 = non_working, !.disk0 = Disk,
                      !.current_servers = <<>>]
    /\ UNCHANGED <<now, up, geo, user_list, blocked_file, subs, last_state, servers,
                   non_working, unique_servers, passes, fx, panel>>

DetectManualChanges ==
    /\ pc = "detect"
    /\ pc' = "blkcmd"
    /\ IF ~last_state.ex
       THEN /\ last_state' = save_user_state(user_list)
            /\ UNCHANGED user_list
       ELSE LET current_users == CleanedUsers(user_list, last_state)
                modified == ManuallyModified(user_list, last_state)
            IN  /\ last_state' = save_user_state(current_users)
                /\ \E order \in Orders(modified) :
                      user_list' = IF modified = {} THEN user_list
                                   ELSE MoveAllToTop(current_users, order)
    /\ UNCHANGED <<now, fast, up, geo, blocked_file, subs, servers, non_working,
                   unique_servers, passes, h, fx, panel>>

ProcessBlockedUsersCommands ==
    /\ pc = "blkcmd"
    /\ pc' = "usercmd"
    /\ LET raw == DedupBlocked(blocked_file)
       IN  IF ToUnblock(raw) \cup ToDelete(raw) = {}
           THEN /\ blocked_file' = raw
                /\ UNCHANGED <<user_list, subs, last_state>>
           ELSE LET updated == BlockedCmdUsers(user_list, raw)
                    modified == {extract_username_from_line(l) : l \in Range(user_list)}
                                  \cap (ToUnblock(raw) \cup ToDelete(raw))
                IN  \E order \in Orders(modified) :
                       LET final_users == MoveAllToTop(updated, order)
                       IN  /\ user_list' = final_users
                           /\ last_state' = save_user_state(final_users)
                           /\ blocked_file' = BlockedFromUsers(final_users, ToDelete(raw))
                           /\ subs' = RemoveFiles(subs, ToDelete(raw))
    /\ UNCHANGED <<now, fast, up, geo, servers, non_working, unique_servers, passes, h, fx, panel>>

ProcessUserCommands ==
    /\ pc = "usercmd"
    /\ pc' = "expired"
    /\ LET users == PreCleanAll(user_list)
           acc == CommandLoop(Acc0(subs), users, 1, Usernames(user_list), now)
       IN  \E order \in Orders(acc.top) :
              LET final_users == MoveAllToTop(acc.upd, order)
                  fresh == acc.blocked \cap Usernames(BlockedDict(final_users))
              IN  /\ user_list' = final_users
                  /\ last_state' = save_user_state(final_users)
                  /\ \E border \in Orders(fresh) :
                        blocked_file' = OrderedBlocked(final_users, border)
                  /\ subs' = RemoveFiles(acc.fs, acc.deleted)
                  /\ h' = [h EXCEPT !.cmd_in = users, !.cmd_fs = subs, !.acc = acc,
                                    !.written = @ \cup WrittenExpiries(users, now)]
    /\ UNCHANGED <<now, fast, up, geo, servers, non_working, unique_servers, passes, fx, panel>>

CheckExpiredUsers ==
    /\ pc = "expired"
    /\ pc' = IF fast THEN "publish" ELSE "discover"
    /\ LET expired_users == ExpiredNames(user_list, now)
       IN  IF expired_users = <<>>
           THEN UNCHANGED <<user_list, blocked_file>>
           ELSE /\ user_list' = MoveAllToTop(ExpiredMarked(user_list, now), expired_users)
                /\ \E order \in Orders(get_blocked_users(blocked_file)
                                        \cup Range(expired_users)) :
                      blocked_file' = [i \in 1..Len(order) |-> Plain(order[i])]
    \* FAST_RUN: unique_servers = load_main_servers()
    /\ unique_servers' = IF fast THEN load_main_servers(Disk) ELSE unique_servers
    /\ UNCHANGED <<now, fast, up, geo, subs, last_state, servers, non_working, passes, h, fx, panel>>

DiscoverNewSubscriptions ==
    /\ pc = "discover"
    /\ pc' = "cleanup"
    /\ \E order \in Orders(DOMAIN subs \ Usernames(user_list)) :
          user_list' = AddDiscovered(user_list, order)
    /\ UNCHANGED <<now, fast, up, geo, blocked_file, subs, last_state, servers,
                   non_working, unique_servers, passes, h, fx, panel>>

CleanupNonWorking ==
    /\ pc = "cleanup"
    /\ pc' = "recovery"
    /\ non_working' = cleanup_non_working(non_working, now)
    /\ h' = [h EXCEPT !.removed = @ \cup LoggedRemoved(non_working, now)]
    /\ UNCHANGED <<now, fast, up, geo, user_list, blocked_file, subs, last_state,
                   servers, unique_servers, passes, fx, panel>>

ProcessNonWorkingRecovery ==
    /\ pc = "recovery"
    /\ pc' = "validate"
    /\ LET r == RecoverAll(non_working, Disk, up)
       IN  /\ non_working' = r[1]
           /\ SetDisk(r[2])
    /\ UNCHANGED <<now, fast, up, geo, user_list, blocked_file, subs, last_state,
                   unique_servers, passes, h, fx>>

\* current_servers = load_main_servers() ... save_main_servers(valid_servers)
ValidateMainServers ==
    /\ pc = "validate"
    /\ pc' = "remarks"
    /\ LET current_servers == load_main_servers(Disk)
           valid_servers == ValidServers(current_servers, up)
       IN  /\ non_working' = QuarantinedAfter(current_servers, non_working, up,
                                              get_active_server_file(Disk), now)
           /\ SetDisk(save_main_servers(Disk, valid_servers))
           /\ unique_servers' = valid_servers
           /\ h' = [h EXCEPT !.current_servers = current_servers,
                             !.loaded_file = LoadedFile(Disk),
                             !.saved_file = get_active_server_file(Disk)]
    /\ UNCHANGED <<now, fast, up, geo, user_list, blocked_file, subs, last_state,
                   passes, fx>>

\* update_server_remarks, remove_duplicates, save_main_servers(unique_servers)
RemarkAndDedupe ==
    /\ pc = "remarks"
    /\ pc' = "publish"
    /\ unique_servers' = remove_duplicates(update_server_remarks(unique_servers, geo))
    /\ SetDisk(save_main_servers(Disk, unique_servers'))
    /\ UNCHANGED <<now, fast, up, geo, user_list, blocked_file, subs, last_state,
                   non_working, passes, h, fx>>

PublishSubscriptions ==
    /\ pc = "publish"
    /\ pc' = "done"
    /\ subs' = Publish(subs, user_list, get_blocked_users(blocked_file), unique_servers)
    /\ passes' = passes + 1
    /\ UNCHANGED <<now, fast, up, geo, user_list, blocked_file, last_state, servers,
                   non_working, unique_servers, h, fx, panel>>

-----------------------------------------------------------------------------
(* Between two passes: the clock, and the administrator's editor *)

Tods == {10 * 60, 23 * 60}
Times == {At(d, tod) : d \in 0..MaxDay, tod \in Tods}

Tick ==
    /\ Idle
    /\ passes \in 1..(MaxPasses - 1)
    /\ \E t \in Times : t > now /\ now' = t
    /\ pc' = "idle"
    /\ UNCHANGED <<fast, up, geo, user_list, blocked_file, subs, last_state, servers,
                   non_working, unique_servers, passes, h, fx, panel>>

\* the administrator writes a directive at the end of a line without one
ManualEdit ==
    /\ Idle
    /\ passes \in 1..(MaxPasses - 1)
    /\ \E i \in 1..Len(user_list) :
          /\ user_list[i].cmd = "none"
          /\ \E c \in {"b", "ub", "d"} :
                /\ c = "ub" => user_list[i].blk
                /\ c = "b" => ~user_list[i].blk
                /\ user_list' = [user_list EXCEPT ![i] = Cmd(@, c)]
    /\ pc' = "idle"
    /\ UNCHANGED <<now, fast, up, geo, blocked_file, subs, last_state, servers,
                   non_working, unique_servers, passes, h, fx, panel>>

Next ==
    \/ StartPass
    \/ DetectManualChanges
    \/ ProcessBlockedUsersCommands
    \/ ProcessUserCommands
    \/ CheckExpiredUsers
    \/ DiscoverNewSubscriptions
    \/ CleanupNonWorking
    \/ ProcessNonWorkingRecovery
    \/ ValidateMainServers
    \/ RemarkAndDedupe
    \/ PublishSubscriptions
    \/ Tick
    \/ ManualEdit

-----------------------------------------------------------------------------
(* Initial states *)

Alice == Nm("alice")
Bob == Nm("bob")
Carol == Nm("carol")
Dave == Nm("dave")

Txt1 == [k |-> "txt", t |-> 1]
AbsPast == [k |-> "abs", t |-> At(0, 10 * 60)]
TodayLate == [k |-> "today", t |-> 23 * 60]
Note1 == [txt |-> "n1", bd |-> <<>>]
Tag0 == [txt |-> "", bd |-> <<0>>]
Note1Tag0 == [txt |-> "n1", bd |-> <<0>>]

\* the expressions written after ---es: "23:00", "25:00", "2 hours",
\* "1 days", "1 days 10:00", "soon"
Exprs ==
    {[k |-> "hm", n |-> 0, tod |-> 23 * 60],
     [k |-> "hm", n |-> 0, tod |-> 25 * 60],
     [k |-> "h", n |-> 2, tod |-> None],
     [k |-> "d", n |-> 1, tod |-> None],
     [k |-> "d", n |-> 1, tod |-> 10 * 60],
     [k |-> "bad", n |-> 0, tod |-> None]}

\* entries without a directive
Bases(n) ==
    {Plain(n), Ln(FALSE, n, <<Txt1>>, Note1), Ln(TRUE, n, <<Txt1>>, Note1Tag0),
     Ln(FALSE, n, <<AbsPast>>, NoNote), Ln(FALSE, n, <<TodayLate>>, NoNote)}

\* "---m bob", "---m", "bob ---m"
Creates ==
    {CmdTo(Plain(NoName), "m", Bob), Cmd(Plain(NoName), "m"), Cmd(Plain(Bob), "m")}

\* the lines an administrator may have left for username n
Forms(n) ==
    Bases(n)
      \cup {Cmd(l, "b") : l \in {x \in Bases(n) : ~x.blk}}
      \cup {Cmd(l, "ub") : l \in {x \in Bases(n) : x.blk}}
      \cup {Cmd(Plain(n), "d")}
      \cup {CmdTo(Plain(n), "r", x) : x \in {Bob, NoName, n}}
      \cup {CmdEx(Plain(n), e) : e \in Exprs}
      \cup {CmdEx(Ln(FALSE, n, <<AbsPast>>, NoNote), [k |-> "d", n |-> 1, tod |-> None])}
      \cup {CmdEx(Ln(FALSE, n, <<Txt1>>, Note1), [k |-> "bad", n |-> 0, tod |-> None]),
            CmdTo(Ln(TRUE, n, <<Txt1>>, Note1Tag0), "r", NoName)}

SlotForms(i) ==
    CASE i = 1 -> Forms(Alice) \cup Creates
      [] i = 2 -> {Plain(Bob), Plain(Carol), Ln(FALSE, Carol, <<AbsPast>>, NoNote),
                   Cmd(Plain(Carol), "d"), CmdTo(Plain(Carol), "r", Bob),
                   CmdTo(Plain(NoName), "m", Bob)}
      [] OTHER -> {Plain(Dave), CmdTo(Plain(Dave), "r", Bob),
                   CmdTo(Plain(NoName), "m", Bob)}

\* registries of at most MaxUsers lines, no username written twice
Registries ==
    UNION {{r \in [1..n -> UNION {SlotForms(i) : i \in 1..n}] :
               \A i \in 1..n : r[i] \in SlotForms(i)} : n \in 1..MaxUsers}

\* the line as it was before the administrator wrote the directive
Undirected(l) == Ln(l.blk, l.name, l.data, l.note)

\* the registry the previous pass left: the lines there before the edit
Before(reg) ==
    LET old == SeqFilter(reg, {l \in Range(reg) : l.cmd # "m"})
    IN  [i \in 1..Len(old) |-> Undirected(old[i])]

FilesFor(names) == [n \in names \ {NoName} |-> ManualPayload]

\* blocked_users.txt as a pass leaves it for this registry, then the same with
\* a directive written on its first line, then a file that names someone else
BlockedFiles(reg) ==
    LET good == BlockedFromUsers(Before(reg), {})
    IN  {good, <<Plain(Bob)>>}
          \cup (IF good = <<>> THEN {}
                ELSE {[good EXCEPT ![1] = Cmd(@, "ub")], [good EXCEPT ![1] = Cmd(@, "d")]})

Server1 == Srv("vless", "h1", <<2, 1>>, Rem(0, "", "X", ""))
Server2 == Srv("vless", "h2", <<1>>, Rem(0, "", "", ""))
Server3 == Srv("vless", "H1", <<1, 2>>, Rem(0, "", "Y", "mine"))

\* fx while no pure function is being applied
NoToken == [k |-> "txt", t |-> 0]

Fx0 == [op |-> "none", e |-> NoEx, at |-> 0, t0 |-> None, tok |-> NoToken,
        t |-> 0, res |-> <<FALSE, None>>, list |-> <<>>, out |-> <<>>,
        started |-> 0, finished |-> {}, taken |-> {},
        entry |-> [name |-> [b |-> "", s |-> <<>>], blk |-> FALSE, data |-> <<>>],
        line |-> [name |-> [b |-> "", s |-> <<>>], blk |-> FALSE, data |-> <<>>],
        lres |-> <<FALSE, None>>]

H0 ==
    [reg0 |-> <<>>, blk0 |-> <<>>, subs0 |-> <<>>,
     snap |-> [ul |-> <<>>, bf |-> <<>>, fs |-> <<>>],
     quiet |-> FALSE, prevfast |-> FALSE,
     cmd_in |-> <<>>, prev_in |-> <<>>, cmd_fs |-> <<>>, acc |-> Acc0(<<>>),
     nw0 |-> <<>>, disk0 |-> ServerDisk(MAIN_FILE, {}, <<>>, <<>>),
     current_servers |-> <<>>, removed |-> {}, written |-> {},
     loaded_file |-> NoFile, saved_file |-> NoFile]

InitFrom(regs, ups, geos) ==
    /\ now = At(1, 10 * 60)
    /\ pc = "idle"
    /\ fast = FALSE
    /\ up \in ups
    /\ geo \in geos
    /\ user_list \in regs
    /\ blocked_file \in BlockedFiles(user_list)
    /\ subs \in {FilesFor(Usernames(Before(user_list))),
                 FilesFor(Usernames(Before(user_list)) \cup {Bob})}
    /\ last_state \in {NoState, save_user_state(Before(user_list))}
    /\ servers = <<Server1, Server2, Server3>>
    /\ alt_servers = <<>>
    /\ server_files = {MAIN_FILE}
    /\ active_file = MAIN_FILE
    /\ non_working = <<>>
    /\ unique_servers = <<>>
    /\ passes = 0
    /\ h = H0
    /\ fx = Fx0

Init == InitFrom(Registries, {Hosts}, {"DE"})

Spec == Init /\ [][Next]_vars

\* registries as an editor can leave them: a username may be written on two lines
AnyRegistries ==
    LET lines == {Plain(Alice), Ln(FALSE, Alice, <<AbsPast>>, NoNote),
                  Ln(TRUE, Alice, <<Txt1>>, Note1Tag0), Cmd(Plain(Alice), "b"),
                  Plain(Bob)}
    IN  UNION {[1..n -> lines] : n \in 1..MaxUsers}

InitAny == InitFrom(AnyRegistries, {Hosts}, {"DE"})

SpecAny == InitAny /\ [][Next]_vars

-----------------------------------------------------------------------------
(* The server files on their own: a registry of two users, and the master  *)
(* list, the quarantine file, the control panel and the network varied     *)

\* 127.0.0.1 in the text of the line
FakeLine == Srv("vless", "127.0.0.1", <<1>>, NoRemark)

MasterLists == {<<Server1, Server2, Server3>>, <<Server2, FakeLine>>}

AltLine == Srv("vless", "h1", <<3>>, NoRemark)

\* captured three days before the first pass, to the minute
QuarantinedOld ==
    QEntry(Srv("vless", "h1", <<3>>, Rem(1, "DE", "", "")), ALT_FILE, At(-2, 10 * 60))

QuarantinedYoung ==
    QEntry(Srv("trojan", "h1", <<1>>, Rem(2, "", "", "")), ALT_FILE, At(0, 10 * 60))

\* a line of the old format, three days old at 23:00 of the day of the first pass
QuarantinedOldFormat ==
    QEntry(Srv("vless", "h2", <<1, 2>>, Rem(2, "DE", "", "")), NoFile, At(-2, 23 * 60))

\* a line whose date does not parse
QuarantinedUndated ==
    QEntry(Srv("vless", "h1", <<4>>, NoRemark), MAIN_FILE, None)

QuarantineFiles ==
    {<<>>,
     <<QuarantinedOldFormat>>,
     <<QuarantinedOld, QuarantinedYoung, QuarantinedOldFormat>>,
     <<QuarantinedYoung, QuarantinedUndated>>}

ServerRegistry == <<Plain(Alice), Ln(TRUE, Bob, <<Txt1>>, Note1Tag0)>>

InitServers ==
    /\ now = At(1, 10 * 60)
    /\ pc = "idle"
    /\ fast = FALSE
    /\ up \in {Hosts, {"h1"}, {}}
    /\ geo \in {"", "DE"}
    /\ user_list = ServerRegistry
    /\ blocked_file = BlockedFromUsers(ServerRegistry, {})
    /\ subs = FilesFor(Usernames(ServerRegistry))
    /\ last_state = save_user_state(ServerRegistry)
    /\ server_files \in SUBSET {MAIN_FILE, ALT_FILE}
    /\ active_file \in {MAIN_FILE, ALT_FILE}
    /\ servers \in IF MAIN_FILE \in server_files THEN MasterLists ELSE {<<>>}
    /\ alt_servers = IF ALT_FILE \in server_files THEN <<AltLine>> ELSE <<>>
    /\ non_working \in QuarantineFiles
    /\ unique_servers = <<>>
    /\ passes = 0
    /\ h = H0
    /\ fx = Fx0

SpecServers == InitServers /\ [][Next]_vars

-----------------------------------------------------------------------------
(* The validation of the master list step by step: the probes run in worker *)
(* threads and finish in any order, the main thread takes the results       *)

POOL_WORKERS == 32

\* max_workers = min(32, len(servers_to_check))
max_workers(n) == IF n < POOL_WORKERS THEN n ELSE POOL_WORKERS

\* the tasks a worker thread is running: fx.list is servers_to_check,
\* fx.started the number of tasks taken from the queue, fx.finished the tasks
\* whose probe has returned (fx.out: in the order they returned), fx.taken the
\* results the main thread has consumed
InFlight == (1..fx.started) \ fx.finished

NextResultCompleted(p) ==
    IF p.finished \ p.taken # {}
    THEN CHOOSE i \in p.finished \ p.taken : \A j \in p.finished \ p.taken : j <= i
    ELSE CHOOSE i \in (1..Len(p.list)) \ p.taken :
            \A j \in (1..Len(p.list)) \ p.taken : i <= j

\* pool.map yields the results in the order of its input
NextResult(p) ==
    CHOOSE i \in (1..Len(p.list)) \ p.taken : \A j \in (1..Len(p.list)) \ p.taken : i <= j

ProbeLists ==
    {<<Server1, Server2, Server3>>, <<Server2, FakeLine>>,
     <<Server2, Srv("trojan", "h2", <<1>>, NoRemark), Server1>>}

InitProbes ==
    /\ now = At(1, 10 * 60)
    /\ pc = "load"
    /\ fast = FALSE
    /\ up \in SUBSET Hosts
    /\ geo = "DE"
    /\ user_list = ServerRegistry
    /\ blocked_file = BlockedFromUsers(ServerRegistry, {})
    /\ subs = FilesFor(Usernames(ServerRegistry))
    /\ last_state = save_user_state(ServerRegistry)
    /\ server_files = {MAIN_FILE}
    /\ active_file = MAIN_FILE
    /\ servers \in ProbeLists
    /\ alt_servers = <<>>
    /\ non_working \in {<<>>, <<QuarantinedOldFormat>>}
    /\ unique_servers = <<>>
    /\ passes = 0
    /\ h = [H0 EXCEPT !.nw0 = non_working]
    /\ fx = Fx0

ProbeFrame ==
    UNCHANGED <<now, fast, up, geo, user_list, blocked_file, subs, last_state, passes>>

\* current_servers = load_main_servers(); the fake lines are quarantined
ProbeLoad ==
    /\ pc = "load"
    /\ pc' = "probe"
    /\ LET current_servers == load_main_servers(Disk)
       IN  /\ non_working' =
                 QuarantineAll(SeqFilter(current_servers,
                                         {l \in Range(current_servers) : is_fake_server(l)}),
                               non_working, get_active_server_file(Disk), now)
           /\ fx' = [fx EXCEPT !.op = "probing", !.list = ServersToCheck(current_servers)]
           /\ h' = [h EXCEPT !.current_servers = current_servers]
    /\ unique_servers' = <<>>
    /\ ProbeFrame
    /\ UNCHANGED <<servers, panel>>

\* a worker thread takes the next task of the queue
ProbeStart ==
    /\ pc = "probe"
    /\ fx.started < Len(fx.list)
    /\ Cardinality(InFlight) < max_workers(Len(fx.list))
    /\ fx' = [fx EXCEPT !.started = @ + 1]
    /\ ProbeFrame
    /\ UNCHANGED <<pc, servers, non_working, unique_servers, h, panel>>

\* validate_server returns in some worker thread
ProbeFinish ==
    /\ pc = "probe"
    /\ \E i \in InFlight : fx' = [fx EXCEPT !.finished = @ \cup {i}, !.out = Append(@, i)]
    /\ ProbeFrame
    /\ UNCHANGED <<pc, servers, non_working, unique_servers, h, panel>>

\* one turn of "for srv, ok in zip(servers_to_check, pool.map(...))"
ProbeCollect ==
    /\ pc = "probe"
    /\ fx.taken # 1..Len(fx.list)
    /\ LET i == NextResult(fx)
           srv == fx.list[i]
       IN  /\ i \in fx.finished
           /\ fx' = [fx EXCEPT !.taken = @ \cup {i}]
           /\ IF validate_server(srv, up)
              THEN /\ unique_servers' = Append(unique_servers, srv)
                   /\ UNCHANGED non_working
              ELSE /\ non_working' = move_server_to_non_working(
                                         non_working, srv, get_active_server_file(Disk), now)
                   /\ UNCHANGED unique_servers
    /\ ProbeFrame
    /\ UNCHANGED <<pc, servers, h, panel>>

\* save_main_servers(valid_servers)
ProbeSave ==
    /\ pc = "probe"
    /\ fx.taken = 1..Len(fx.list)
    /\ pc' = "remarks"
    /\ SetDisk(save_main_servers(Disk, unique_servers))
    /\ fx' = [fx EXCEPT !.op = "probed"]
    /\ ProbeFrame
    /\ UNCHANGED <<non_working, unique_servers, h>>

NextProbes ==
    \/ ProbeLoad
    \/ ProbeStart
    \/ ProbeFinish
    \/ ProbeCollect
    \/ ProbeSave

SpecProbes == InitProbes /\ [][NextProbes]_vars

-----------------------------------------------------------------------------
(* The expiry functions on their own: parse an expression at one instant,  *)
(* format the result at that instant, evaluate the written line later      *)

ExpiryTods == {30, 10 * 60, 23 * 60 + 30, DefaultTod}
ExpiryNows == {At(d, tod) : d \in 0..1, tod \in ExpiryTods}
EvalTimes == {At(d, tod) : d \in 0..MaxDay, tod \in ExpiryTods}

ExpiryExprs ==
    Exprs \cup {[k |-> "w", n |-> 0, tod |-> None], [k |-> "d", n |-> 0, tod |-> 10 * 60],
                [k |-> "h", n |-> 20, tod |-> None]}

Quiescent ==
    /\ now = At(1, 10 * 60)
    /\ pc = "pure"
    /\ fast = FALSE
    /\ up = Hosts
    /\ geo = ""
    /\ user_list = <<>>
    /\ blocked_file = <<>>
    /\ subs = <<>>
    /\ last_state = NoState
    /\ servers = <<>>
    /\ alt_servers = <<>>
    /\ server_files = {MAIN_FILE}
    /\ active_file = MAIN_FILE
    /\ non_working = <<>>
    /\ unique_servers = <<>>
    /\ passes = 0
    /\ h = H0

PureFrame ==
    UNCHANGED <<now, pc, fast, up, geo, user_list, blocked_file, subs, last_state,
                servers, non_working, unique_servers, passes, h, panel>>

\* what the entry holds between its username and the directive: nothing, a
\* word, or the expiry string an earlier set-expiry wrote
ExistingData == {<<>>, <<Txt1>>, <<AbsPast>>, <<TodayLate>>}

\* the entry "<username> <existing data> ---es <e>", blocked or not
InitExpiry ==
    /\ Quiescent
    /\ \E e \in ExpiryExprs, t \in ExpiryNows, old \in ExistingData, b \in BOOLEAN :
          fx = [Fx0 EXCEPT !.op = "input", !.e = e, !.at = t,
                           !.entry = [name |-> Alice, blk |-> b, data |-> old]]

\* ---es <e> handled at fx.at: parse_relative_datetime
ExpiryParse ==
    /\ fx.op = "input"
    /\ LET target == parse_relative_datetime(fx.e, fx.at)
       IN  fx' = [fx EXCEPT !.op = IF target = None THEN "rejected" ELSE "parsed",
                            !.t0 = target]
    /\ PureFrame

\* format_expiry_datetime(target_datetime), still at fx.at
ExpiryFormat ==
    /\ fx.op = "parsed"
    /\ fx' = [fx EXCEPT !.op = "formatted",
                        !.tok = format_expiry_datetime(fx.t0, fx.at)]
    /\ PureFrame

\* the line the "---es" branch of process_user_commands appends for the entry
ExpirySet ==
    /\ fx.op = "formatted"
    /\ LET l == CmdEx(Ln(fx.entry.blk, fx.entry.name, fx.entry.data, NoNote), fx.e)
           written == ExpiryStep(Acc0(<<>>), l, fx.at).upd[1]
       IN  fx' = [fx EXCEPT !.op = "written",
                            !.line = [name |-> written.name, blk |-> written.blk,
                                      data |-> written.data]]
    /\ PureFrame

\* check_expiry_datetime at some instant t, on the line "<username> <token>"
\* and on the line the directive wrote
ExpiryCheck ==
    /\ fx.op = "written"
    /\ \E t \in EvalTimes :
          fx' = [fx EXCEPT !.op = "checked", !.t = t,
                           !.res = check_expiry_datetime(<<fx.tok>>, t),
                           !.lres = check_expiry_datetime(fx.line.data, t)]
    /\ PureFrame

NextExpiry == ExpiryParse \/ ExpiryFormat \/ ExpirySet \/ ExpiryCheck

SpecExpiry == InitExpiry /\ [][NextExpiry]_vars

-----------------------------------------------------------------------------
(* remove_duplicates on its own, on the lists that reach it: validated     *)
(* lines of the URL schemes                                                *)

ServerPool ==
    {Srv("vless", "h1", <<2, 1>>, Rem(1, "DE", "", "X")),
     Srv("vless", "h1", <<1, 2>>, Rem(2, "DE", "", "Y")),
     Srv("vless", "H1", <<1, 2>>, Rem(1, "DE", "", "X")),
     Srv("vless", "h1", <<1>>, Rem(1, "DE", "", "")),
     Srv("vless", "h2", <<1, 2>>, Rem(1, "DE", "", "")),
     Srv("trojan", "h1", <<1, 2>>, Rem(1, "DE", "", ""))}

InitDedup ==
    /\ Quiescent
    /\ \E n \in 1..MaxServers :
          \E list \in [1..n -> ServerPool] : fx = [Fx0 EXCEPT !.op = "list", !.list = list]

Dedupe ==
    /\ fx.op = "list"
    /\ fx' = [fx EXCEPT !.op = "deduped", !.out = remove_duplicates(fx.list)]
    /\ PureFrame

NextDedup == Dedupe

SpecDedup == InitDedup /\ [][NextDedup]_vars

-----------------------------------------------------------------------------
(* process_control_panel on its own *)

\* a line of control_panel.txt: tick, the line starts with the tick; on, the
\* marker written on it ("on": ---on or ---ON, "On": another spelling, which
\* lower() finds and replace() leaves in place); name, the other words
PanelLine(tick, on, name) == [tick |-> tick, on |-> on, name |-> name]

\* line.replace(tick, '').replace('---on', '').replace('---ON', '').strip()
CleanLine(l) == [on |-> IF l.on = "On" THEN "On" ELSE "none", name |-> l.name]

\* line.replace(tick, '').strip()
Unticked(l) == [on |-> l.on, name |-> l.name]

BlankName(c) == c.on = "none" /\ c.name = ""

\* active_server = None
NoActive == [on |-> "none", name |-> ""]

FirstIn(S) == CHOOSE i \in S : \A j \in S : i <= j

\* the first pass, then the search for an existing tick
ActiveServer(lines) ==
    LET ons == {i \in 1..Len(lines) :
                  ~BlankName(CleanLine(lines[i])) /\ lines[i].on # "none"}
        ticks == {i \in 1..Len(lines) :
                    lines[i].tick /\ ~BlankName(Unticked(lines[i]))}
    IN  IF ons # {} THEN CleanLine(lines[FirstIn(ons)])
        ELSE IF ticks # {} THEN Unticked(lines[FirstIn(ticks)])
        ELSE NoActive

\* the second pass: updated_lines
RECURSIVE UpdatedLines(_, _, _)
UpdatedLines(lines, seen_servers, active_server) ==
    IF lines = <<>> THEN <<>>
    ELSE LET clean_line == CleanLine(Head(lines))
         IN  IF BlankName(clean_line) \/ clean_line \in seen_servers
             THEN UpdatedLines(Tail(lines), seen_servers, active_server)
             ELSE <<PanelLine(clean_line = active_server, clean_line.on, clean_line.name)>>
                    \o UpdatedLines(Tail(lines), seen_servers \cup {clean_line},
                                    active_server)

\* the lines written back to control_panel.txt
process_control_panel(lines) ==
    LET active_server == ActiveServer(lines)
        updated_lines == UpdatedLines(lines, {}, active_server)
    IN  IF updated_lines = <<>> THEN <<PanelLine(TRUE, "none", MAIN_FILE)>>
        ELSE IF active_server = NoActive THEN [updated_lines EXCEPT ![1].tick = TRUE]
        ELSE updated_lines

MaxPanelLines == 3

\* every line but the empty one
PanelLinePool ==
    {PanelLine(t, o, n) : t \in BOOLEAN, o \in {"none", "on", "On"},
                          n \in {"", MAIN_FILE, ALT_FILE}}
      \ {PanelLine(FALSE, "none", "")}

InitPanel ==
    /\ Quiescent
    /\ \E n \in 0..MaxPanelLines :
          \E list \in [1..n -> PanelLinePool] : fx = [Fx0 EXCEPT !.op = "panel", !.list = list]

ProcessControlPanel ==
    /\ fx.op = "panel"
    /\ fx' = [fx EXCEPT !.op = "paneled", !.out = process_control_panel(fx.list)]
    /\ PureFrame

NextPanel == ProcessControlPanel

SpecPanel == InitPanel /\ [][NextPanel]_vars

-----------------------------------------------------------------------------
(* Properties *)

PassDone == pc = "done"

\* usernames whose registry line carries the blocked marker
MarkedNames(users) == {extract_username_from_line(l) : l \in {x \in Range(users) : x.blk}}

\* C1: at the end of every pass the usernames stored in blocked_users.txt are
\* exactly the usernames whose registry line carries the blocked marker
C1_BlockedSetMatchesRegistry ==
    PassDone => get_blocked_users(blocked_file) = MarkedNames(user_list)

DecoyPayload == Base64Joined(get_fake_servers)

\* the registry lines "<username> ---b" the finished pass started from
BareBlockLines ==
    {l \in Range(h.reg0) : l.name # NoName /\ l = Cmd(Plain(l.name), "b")}

\* C2: a line "<username> ---b" is, after the pass, the blocked marker, the
\* username and the note "#| blocked <date of the run>"; the username is in
\* blocked_users.txt and its subscription file holds the decoy payload
C2_BlockDirective ==
    PassDone =>
        \A l \in BareBlockLines :
            /\ Ln(TRUE, l.name, <<>>, [txt |-> "", bd |-> <<Day(now)>>]) \in Range(user_list)
            /\ \A x \in Range(user_list) : x.name = l.name => x.blk
            /\ l.name \in get_blocked_users(blocked_file)
            /\ FileExists(subs, l.name)
            /\ subs[l.name] = DecoyPayload

C2_Witness ==
    /\ PassDone
    /\ Cmd(Plain(Alice), "b") \in BareBlockLines
    /\ Ln(TRUE, Alice, <<>>, [txt |-> "", bd |-> <<Day(now)>>]) \in Range(user_list)
    /\ subs[Alice] = DecoyPayload

\* a create or rename directive whose literal target is bob
TargetsBob(l) ==
    \/ l.cmd = "m" /\ (l.to = Bob \/ (l.to = NoName /\ l.name = Bob))
    \/ l.cmd = "r" /\ l.to = Bob /\ l.name \notin {Bob, NoName}

\* the positions of the entries named bob, bob1, bob2, ...
BobFamily(users) == {i \in 1..Len(users) : users[i].name.b = "bob"}

\* C3: after a pass that processed N create/rename directives targeting bob,
\* the registry holds N resulting entries next to the entries of that family
\* it already had, with pairwise distinct usernames, exactly one named bob
C3_DistinctTargets ==
    PassDone =>
        LET N == Cardinality({i \in 1..Len(h.cmd_in) : TargetsBob(h.cmd_in[i])})
            kept == Cardinality({i \in BobFamily(h.cmd_in) : h.cmd_in[i].cmd = "none"})
            post == BobFamily(user_list)
        IN  N >= 1 =>
              /\ Cardinality(post) = N + kept
              /\ \A i, j \in post : i # j => user_list[i].name # user_list[j].name
              /\ Cardinality({i \in post : user_list[i].name = Bob}) = 1

\* the username a create or rename directive asks for (NoName: none, or a
\* directive that is not a well-formed create/rename)
TargetOf(l) ==
    CASE l.cmd = "m" -> (IF l.to # NoName THEN l.to ELSE l.name)
      [] l.cmd = "r" /\ l.to # l.name -> l.to
      [] OTHER -> NoName

\* the names some create/rename directive asks for while the name exists: it
\* is the username of another line, or an earlier directive of the batch
\* asked for it
ConflictTargets(users) ==
    {n \in {TargetOf(users[j]) : j \in 1..Len(users)} \ {NoName} :
        \E j \in 1..Len(users) :
            /\ TargetOf(users[j]) = n
            /\ \E i \in (1..Len(users)) \ {j} :
                  \/ users[i].name = n
                  \/ i < j /\ TargetOf(users[i]) = n}

CountNamed(users, n) == Cardinality({i \in 1..Len(users) : users[i].name = n})

AfterDirectives == pc = "expired"

\* C4: a create or rename directive whose target name exists does not overwrite
\* or remove what belongs to that name: after the directive step every entry
\* of that name is still in the registry, an entry that had the name before
\* the pass is unchanged, and so is the name's subscription file
C4_ConflictKeepsExisting ==
    AfterDirectives =>
        \A n \in ConflictTargets(h.cmd_in) :
            /\ CountNamed(user_list, n) = CountNamed(h.acc.upd, n)
            /\ \A e \in Range(h.cmd_in) :
                  (e.name = n /\ e.cmd = "none") => e \in Range(user_list)
            /\ FileExists(h.cmd_fs, n) => FileExists(subs, n) /\ subs[n] = h.cmd_fs[n]

\* a full pass that started right after a full pass ended: no edit, no clock
\* step in between
SecondRunDone == PassDone /\ h.quiet /\ ~fast /\ ~h.prevfast

\* C5: the second of two full passes run in succession leaves user_list.txt,
\* blocked_users.txt and every subscription file as the first pass left them
C5_SecondRunChangesNothing ==
    SecondRunDone =>
        /\ user_list = h.snap.ul
        /\ blocked_file = h.snap.bf
        /\ subs = h.snap.fs

\* C6: the line written for expression e at instant `now` is reported expired,
\* with timestamp t0 = parse_relative_datetime(e), at every evaluation time
\* t >= t0, and not expired at every t < t0, on whatever calendar day t is
C6_ExpiryRoundTrip ==
    fx.op = "checked" =>
        fx.res = IF fx.t >= fx.t0 THEN <<TRUE, fx.t0>> ELSE <<FALSE, None>>

\* C7: after the publish step every registry username has a subscription
\* file; it holds the base64 of the decoy list if the username is in
\* blocked_users.txt, and else the base64 of the newline-joined master list
C7_PublishedPayloads ==
    PassDone =>
        \A n \in Usernames(user_list) :
            /\ FileExists(subs, n)
            /\ subs[n] = IF n \in get_blocked_users(blocked_file)
                         THEN Base64Joined(get_fake_servers)
                         ELSE Base64Joined(servers)

\* a pass has published the decoy to one user and the master list to another
C7_Witness ==
    /\ PassDone
    /\ \E n, m \in Usernames(user_list) :
          /\ n \in get_blocked_users(blocked_file)
          /\ m \notin get_blocked_users(blocked_file)
          /\ subs[n] = [k |-> "b64", body |-> get_fake_servers]
          /\ subs[m] = [k |-> "b64", body |-> servers]
          /\ servers # <<>>

\* the subscription files that belonged to no registry username when the
\* finished pass started
UnmanagedAtStart == DOMAIN h.subs0 \ Usernames(h.reg0)

\* C8: a subscription file whose username is not in the registry is left
\* untouched by a pass: it still exists, with the content it had
C8_UnmanagedFilesUntouched ==
    PassDone =>
        \A n \in UnmanagedAtStart : FileExists(subs, n) /\ subs[n] = h.subs0[n]

\* the entries that were unblocked and given ---b in the pass before the
\* finished one, and whose username was given ---ub in the finished pass
BlockedThenUnblocked ==
    {l \in Range(h.prev_in) :
        /\ l.cmd = "b" /\ ~l.blk
        /\ \E u \in Range(h.cmd_in) : u.name = l.name /\ u.blk /\ u.cmd = "ub"}

\* the entry as it was before the block, without "| blocked <date>" sub-tags
Restored(l) ==
    /\ Ln(FALSE, l.name, l.data, [txt |-> l.note.txt, bd |-> <<>>]) \in Range(user_list)
    /\ \A x \in Range(user_list) : x.name = l.name => ~x.blk
    /\ l.name \notin get_blocked_users(blocked_file)

\* C9 as stated: a block directive and, in a later pass, an unblock directive
\* give back the unblocked entry with its username, data and note
C9_Original ==
    PassDone => \A l \in BlockedThenUnblocked : Restored(l)

\* C9: a block directive and, in a later pass, an unblock directive give back
\* the unblocked entry with its username, data and note and no blocked
\* sub-tag, provided the entry's data holds no expiry that has passed when
\* the unblocking pass runs
C9_BlockUnblockRoundTrip ==
    PassDone =>
        \A l \in BlockedThenUnblocked :
            ~check_expiry_datetime(l.data, now)[1] => Restored(l)

C9_Witness ==
    /\ PassDone
    /\ \E l \in BlockedThenUnblocked :
          /\ l.data # <<>>
          /\ l.note.txt # ""
          /\ ~check_expiry_datetime(l.data, now)[1]
          /\ Restored(l)

\* q is p with its parameters in another order
PermutedQuery(p, q) ==
    /\ Len(p) = Len(q)
    /\ \A v \in Range(p) \cup Range(q) :
          Cardinality({i \in 1..Len(p) : p[i] = v}) = Cardinality({i \in 1..Len(q) : q[i] = v})

\* two lines of one configuration: they differ in the order of the query
\* parameters, in letter case of scheme and netloc, and in the remark only
SameConfiguration(a, b) ==
    /\ Lower(a.scheme) = Lower(b.scheme)
    /\ Lower(a.host) = Lower(b.host)
    /\ PermutedQuery(a.q, b.q)

\* the positions of the lines that are the first of their configuration
FirstOfConfiguration(list) ==
    {i \in 1..Len(list) : \A j \in 1..(i - 1) : ~SameConfiguration(list[j], list[i])}

DeletedInPass ==
    (ToDelete(DedupBlocked(h.blk0)) \cup {l.name : l \in {x \in Range(h.cmd_in) : x.cmd = "d"}})
        \ {NoName}

\* C11: after a pass that applied a delete directive to username u, no
\* registry line has username u, u is not in blocked_users.txt and u has no
\* subscription file: no later step of the pass brought any of them back
C11_DeletedStaysDeleted ==
    PassDone =>
        \A u \in DeletedInPass :
            /\ u \notin Usernames(user_list)
            /\ u \notin get_blocked_users(blocked_file)
            /\ ~FileExists(subs, u)

\* a full pass deleted a registered user that had a subscription file
C11_Witness ==
    /\ PassDone
    /\ ~fast
    /\ \E u \in DeletedInPass :
          /\ u \in Usernames(h.reg0)
          /\ FileExists(h.subs0, u)
          /\ ~FileExists(subs, u)
          /\ u \notin Usernames(user_list)

\* the usernames of the blocked entries the finished pass applied an unblock
\* directive to: on their user_list line, or on their blocked_users.txt line
UnblockedInPass ==
    {l.name : l \in {x \in Range(h.cmd_in) : x.cmd = "ub" /\ x.blk}}
      \cup {u \in ToUnblock(DedupBlocked(h.blk0)) :
               \E x \in Range(h.reg0) : x.name = u /\ x.blk}

\* the entry of u is active: unmarked, not in blocked_users.txt, and its
\* subscription file holds the live server list
ActiveAtEnd(u) ==
    /\ u \in Usernames(user_list)
    /\ \A x \in Range(user_list) : x.name = u => ~x.blk
    /\ u \notin get_blocked_users(blocked_file)
    /\ FileExists(subs, u)
    /\ subs[u] = Base64Joined(servers)
    /\ subs[u] # DecoyPayload

\* the data of u's entry holds an expiry that has passed at instant t
ExpiryPassed(u, t) ==
    \E x \in Range(user_list) : x.name = u /\ check_expiry_datetime(x.data, t)[1]

\* C12 as stated: an entry given an unblock directive is active at the end of
\* that pass
C12_Original ==
    PassDone => \A u \in UnblockedInPass \ DeletedInPass : ActiveAtEnd(u)

\* C12: an entry given an unblock directive is active at the end of that pass
\* unless its data holds an expiry that has passed; then the expiry step of
\* the same pass blocks it again
C12_UnblockedIsActive ==
    PassDone =>
        \A u \in UnblockedInPass \ DeletedInPass :
            IF ExpiryPassed(u, now) THEN ~ActiveAtEnd(u) ELSE ActiveAtEnd(u)

C12_Witness ==
    /\ PassDone
    /\ \E u \in UnblockedInPass :
          /\ ~ExpiryPassed(u, now)
          /\ \E x \in Range(h.reg0) : x.name = u /\ x.blk /\ x.cmd = "ub"
          /\ FileExists(h.subs0, u)
          /\ ActiveAtEnd(u)

\* blocked_users.txt as the pass found it, and the directives of the pass
PreviousBlocked == get_blocked_users(h.blk0)
NewlyBlocked == {l.name : l \in {x \in Range(h.cmd_in) : x.cmd = "b"}}
NewlyUnblocked ==
    {l.name : l \in {x \in Range(h.cmd_in) : x.cmd = "ub"}} \cup ToUnblock(DedupBlocked(h.blk0))

RecomputedBlocked == (PreviousBlocked \cup NewlyBlocked) \ (NewlyUnblocked \cup DeletedInPass)

\* blocked_users.txt named exactly the marked registry entries when the pass began
ConsistentAtStart == get_blocked_users(h.blk0) = MarkedNames(h.reg0)

C14_NoDirectiveLeft ==
    PassDone => \A l \in Range(user_list) : l.cmd = "none"

\* a rename without a target or onto the entry's own username, or a
\* set-expiry whose expression does not parse
MalformedDirective(l, t) ==
    \/ l.cmd = "r" /\ (l.to = NoName \/ l.to = l.name)
    \/ l.cmd = "es" /\ parse_relative_datetime(l.ex, t) = None

FullPassDone == pc = "done" /\ ~fast

\* the lines of the loaded master list that are flagged as fake or fail the probe
FailedEntries ==
    {l \in Range(h.current_servers) : is_fake_server(l) \/ ~validate_server(l, up)}

Quarantined(l) == \E e \in Range(non_working) : e.srv = l /\ e.at # None

\* C16: at the end of a full pass every line of the master list that was
\* flagged as fake or failed the probe is absent from the master list and
\* present in the quarantine file with a capture time
C16_FailedEntriesQuarantined ==
    FullPassDone =>
        \A l \in FailedEntries :
            l \notin Range(load_main_servers(Disk)) /\ Quarantined(l)

\* the entries of the quarantine file at the start of the pass that carry a
\* capture time
DatedAtStart == {e \in Range(h.nw0) : e.at # None}

\* C17: a quarantine entry captured QUARANTINE_DAYS days or more before a
\* full pass is logged as removed and is never in the quarantine file again;
\* a younger one that fails re-validation is still there after the pass
C17_QuarantineWindow ==
    /\ \A e \in h.removed : e \notin Range(non_working)
    /\ FullPassDone =>
          \A e \in DatedAtStart :
              IF days_in_quarantine(e, now) >= QUARANTINE_DAYS
              THEN e \in h.removed
              ELSE ~validate_server(e.srv, up) => e \in Range(non_working)

C17_Witness ==
    /\ FullPassDone
    /\ QuarantinedOld \in h.removed
    /\ QuarantinedOldFormat \in DatedAtStart /\ QuarantinedOldFormat \in h.removed
    /\ QuarantinedYoung \in DatedAtStart /\ QuarantinedYoung \in Range(non_working)

AfterRecovery == pc = "validate"

\* the file a recovered entry goes back to: its recorded source file if that
\* exists, else the active file
RestoreFile(e) ==
    IF e.src # NoFile /\ e.src \in h.disk0.files THEN e.src ELSE active_file

\* the file exists and holds a line of the entry's configuration
RestoredToFile(e) ==
    /\ RestoreFile(e) \in server_files
    /\ \E m \in Range(ReadServerFile(Disk, RestoreFile(e))) :
          extract_server_config(m) = extract_server_config(e.srv)

\* C18: after the recovery step of a full pass every entry that was in the
\* quarantine file at the start of the pass and validates is in its source
\* file (or the active file) and no longer in the quarantine file
C18_ValidatingEntriesRestored ==
    AfterRecovery =>
        \A e \in Range(h.nw0) :
            validate_server(e.srv, up) => RestoredToFile(e) /\ e \notin Range(non_working)

FastPassDone == pc = "done" /\ fast

\* the lines of the master file on disk: the active file, or servers.txt
MasterOnDisk ==
    IF active_file \in server_files THEN ReadServerFile(Disk, active_file)
    ELSE IF MAIN_FILE \in server_files THEN servers
    ELSE <<>>

\* C19: a fast pass leaves the server files and the quarantine file as they
\* were, validates and removes nothing, and publishes to every unblocked user
\* the lines of the master file as they are on disk
C19_FastPassPublishesDisk ==
    FastPassDone =>
        /\ Disk = h.disk0
        /\ non_working = h.nw0
        /\ h.current_servers = <<>>
        /\ \A u \in Usernames(user_list) \ get_blocked_users(blocked_file) :
              subs[u] = Base64Joined(MasterOnDisk)

C19_Witness ==
    /\ FastPassDone
    /\ \E l \in Range(MasterOnDisk) : ~validate_server(l, up)
    /\ \E e \in Range(non_working) : e.at # None /\ validate_server(e.srv, up)
    /\ \E e \in Range(non_working) :
          e.at # None /\ days_in_quarantine(e, now) >= QUARANTINE_DAYS
    /\ subs[Alice] = [k |-> "b64", body |-> <<Server1, Server2, Server3>>]

\* neither the active file nor servers.txt existed when the pass started
MasterMissingAtStart ==
    h.disk0.active \notin h.disk0.files /\ MAIN_FILE \notin h.disk0.files

\* C20: a pass that finds no master server file rewrites no subscription
\* file: every file that was there before the pass and is still there holds
\* what it held
C20_MissingMasterKeepsFiles ==
    (PassDone /\ MasterMissingAtStart) =>
        \A n \in DOMAIN subs \cap DOMAIN h.subs0 : subs[n] = h.subs0[n]

\* the positions of the create directives "---m <n>" whose <n> is the
\* username of an entry of the registry
CreatesOfExisting ==
    {i \in 1..Len(h.cmd_in) :
        /\ h.cmd_in[i].cmd = "m" /\ h.cmd_in[i].to # NoName
        /\ \E j \in (1..Len(h.cmd_in)) \ {i} :
              h.cmd_in[j].cmd = "none" /\ h.cmd_in[j].name = h.cmd_in[i].to}

\* a create directive naming a username of the registry adds no entry and
\* provisions no subscription file
C21_Original ==
    (AfterDirectives /\ CreatesOfExisting # {}) =>
        /\ Usernames(user_list) = Usernames(Before(h.cmd_in))
        /\ DOMAIN subs = DOMAIN h.cmd_fs

\* C21: a create directive naming a username of the registry leaves the entry
\* of that name as it was and adds an entry under that name with a numeric
\* suffix, a username the registry did not hold, with a subscription file
C21_CreateOfExistingAddsSuffixed ==
    AfterDirectives =>
        \A i \in CreatesOfExisting :
            LET n == h.cmd_in[i].to
            IN  /\ \A e \in Range(h.cmd_in) :
                      (e.name = n /\ e.cmd = "none") => e \in Range(user_list)
                /\ \E x \in Range(user_list) :
                      /\ x.name.b = n.b /\ x.name # n
                      /\ x.name \notin Usernames(h.cmd_in)
                      /\ FileExists(subs, x.name)

C21_Witness ==
    /\ AfterDirectives
    /\ CreatesOfExisting # {}
    /\ Plain(Bob) \in Range(user_list)
    /\ Plain(Sfx(Bob, 1)) \in Range(user_list)
    /\ ~FileExists(h.cmd_fs, Sfx(Bob, 1)) /\ subs[Sfx(Bob, 1)] = FileEmpty

\* the registry the pass started from holds an unblocked entry, without a
\* directive, whose first data token is the one a set-expiry directive wrote
CarriesWritten(r) ==
    \E l \in Range(h.reg0) :
        /\ l.name = r.name /\ ~l.blk /\ l.cmd = "none"
        /\ l.data # <<>> /\ l.data[1] = r.tok

BlockedAtEnd(n) ==
    /\ \E x \in Range(user_list) : x.name = n /\ x.blk
    /\ n \in get_blocked_users(blocked_file)
    /\ FileExists(subs, n) /\ subs[n] = DecoyPayload

\* C22: an unblocked entry that carries the expiry instant t0 written by a
\* set-expiry directive is blocked at the end of every pass run at t >= t0
C22_ExpiredIsBlocked ==
    PassDone =>
        \A r \in h.written :
            (CarriesWritten(r) /\ now >= r.t0) => BlockedAtEnd(r.name)

\* C23: "<N> hours" gives the instant N hours after now; a day, week or month
\* expression without HH:MM gives 23:59 of the date of now plus N, 7N or 30N days
C23_HoursAreExact ==
    (fx.op \in {"parsed", "formatted", "checked"} /\ fx.e.tod = None) =>
        /\ fx.e.k = "h" => fx.t0 = fx.at + fx.e.n * 60
        /\ fx.e.k \in {"d", "w", "mo"} => fx.t0 = At(Day(fx.at) + Delta(fx.e) \div MinPerDay, DefaultTod)

\* C24: the registry written by the directive step is a function of the
\* registry read: it is the same for every order in which the changed
\* usernames can be moved to the top
C24_OrderIsDeterministic ==
    AfterDirectives =>
        \A order \in Orders(h.acc.top) : MoveAllToTop(h.acc.upd, order) = user_list

C26_OneActiveLine ==
    fx.op = "paneled" =>
        LET ons == {i \in 1..Len(fx.list) :
                      fx.list[i].on # "none" /\ ~BlankName(CleanLine(fx.list[i]))}
        IN  /\ Cardinality({i \in 1..Len(fx.out) : fx.out[i].tick}) = 1
            /\ ons # {} =>
                  \A i \in 1..Len(fx.out) :
                      fx.out[i].tick => fx.out[i].name = fx.list[FirstIn(ons)].name

CountLine(users, l) == Cardinality({i \in 1..Len(users) : users[i] = l})

\* C27: the reordering at the end of the directive step only permutes the
\* lines: every line of updated_users is in the registry written, as many
\* times as it was there
C27_ReorderingPermutes ==
    AfterDirectives =>
        \A l \in Range(h.acc.upd) \cup Range(user_list) :
            CountLine(user_list, l) = CountLine(h.acc.upd, l)

\* C28: after a valid set-expiry on an entry, also one that already holds an
\* expiry string, check_expiry_datetime evaluates the instant just set, as
\* it does on the new expiry string alone, and the blocked marker is kept
C28_NewExpiryEvaluated ==
    fx.op = "checked" =>
        /\ fx.lres = fx.res
        /\ fx.line.blk = fx.entry.blk

\* C29: at the end of every pass the saved snapshot is the snapshot of the
\* registry as finally written, also when the pass blocked an expired user
\* or added a discovered subscription
C29_SnapshotMatchesRegistry ==
    PassDone => last_state = save_user_state(user_list)

\* C30: in a full pass the file load_main_servers read the master list from
\* is the file save_main_servers writes the validated list to, whatever the
\* control panel names, also a file that does not exist
C30_LoadAndSaveSameFile ==
    pc = "remarks" /\ h.loaded_file # NoFile => h.loaded_file = h.saved_file

====
